---- MODULE Spec2Model ----
(***************************************************************************)
(* Ordinal-MCP oracle bus (src/server.py).                                 *)
(*                                                                         *)
(* The bus is a directory tree shared by every server process that is      *)
(* started with the same ORDINAL_BUS_DIR: requests/<id>.json,              *)
(* responses/<id>.json and history/<YYYYmmdd_HHMMSS>/{request,response}_   *)
(* <id>.json.  oracle_call runs in the caller's server process,            *)
(* respond_to_oracle_call and the listing tools in whatever process the    *)
(* responder or an observer uses, so the unit of atomicity is one file     *)
(* system call.  Every action below is one such call together with the     *)
(* local computation that precedes it.                                     *)
(*                                                                         *)
(* Time is the wall clock in whole seconds.  The history directory name    *)
(* has one-second resolution, and so has the model's clock.                *)
(***************************************************************************)
EXTENDS Integers, Sequences, FiniteSets, TLC

\* ------------------------------------------------------------------ bounds
\* the clock stops here
MaxTime == 4

\* ------------------------------------------------------- program constants
\* poll_interval = 2.0 (line 135)
poll_interval == 2
\* limit: int = 10 (line 253)
default_limit == 10

\* the activations of oracle_call, numbered in the order they begin
Callers == {1, 2}
\* the activations of respond_to_oracle_call
Responders == {"r1"}
\* uuid4()[:8] draws from a finite space and nothing keeps a draw fresh
Ids == {1, 2}
\* timeout_seconds
Timeouts == {1, 3}
\* question, context and urgency of each activation; the code never branches
\* on them.  "asap" is outside {low, normal, high, critical}
Arguments ==
    [c \in Callers |->
        IF c = 1
        THEN [question |-> "Deploy to prod?", context |-> "", urgency |-> "normal"]
        ELSE [question |-> "Pick A or B?", context |-> "", urgency |-> "asap"]]
Answers == {"A", "B"}
\* bus_history(limit)
Limits == {1, default_limit}

VARIABLES
    now,        \* time.time() / datetime.now(), in seconds
    requests,   \* REQUESTS_DIR: id -> content of <id>.json
    responses,  \* RESPONSES_DIR: id -> content of <id>.json
    histDirs,   \* HISTORY_DIR: the timestamp directories that exist
    histFiles,  \* the files inside them: [ts, kind, id, rec]
    oc,         \* one oracle_call activation per caller: locals and position
    rs,         \* one respond_to_oracle_call activation per responder
    lastRead,   \* what the listing tool that has just run returned
    snap        \* the store as a completed _archive_exchange left it

vars == <<now, requests, responses, histDirs, histFiles, oc, rs, lastRead, snap>>
store == <<requests, responses, histDirs, histFiles>>

\* ------------------------------------------------------------ file contents
NoFile == [kind |-> "absent"]
\* open(path, "w") has created or truncated the file, json.dump has not run yet
EmptyFile == [kind |-> "empty"]

IsJson(f) == f.kind \in {"request", "response"}

\* Where the file behind an open file object is.  open(path, "w") binds the
\* object to the file, not to its name (POSIX): when Path.rename moves the
\* file while it is open, json.dump and the close write into the file where
\* it now is, and when another rename replaces it there, into a file without
\* a name.
InPlace == -1
Unlinked == -2

\* dict.get(key, default)
Get(rec, key, default) == IF key \in DOMAIN rec THEN rec[key] ELSE default

request_data(id, question, context, urgency) ==
    [kind |-> "request", id |-> id, type |-> "oracle_call",
     from_level |-> 2, to_level |-> 3,
     question |-> question, context |-> context, urgency |-> urgency,
     status |-> "pending"]

response_data(id, req, answer) ==
    [kind |-> "response", id |-> id, type |-> "oracle_response",
     question |-> Get(req, "question", ""), answer |-> answer,
     responder |-> "oracle"]

\* ------------------------------------------------------------ return values
NoResult == [kind |-> "none"]
\* f"Oracle response ({responder}): {answer}"
SuccessResult(responder, answer) ==
    [kind |-> "success", responder |-> responder, answer |-> answer]
\* f"Oracle call timed out after {timeout_seconds}s. ... Request ID: {request_id}"
TimeoutResult(timeout, id) == [kind |-> "timeout", timeout |-> timeout, id |-> id]
\* an exception leaves the tool: the framework reports an error, not a result
Raised(error) == [kind |-> "raised", error |-> error]
\* f"No pending request found with ID: {request_id}"
NotFoundResult(id) == [kind |-> "not_found", id |-> id]
\* f"Response recorded for request {request_id}. The caller will receive it shortly."
RecordedResult(id) == [kind |-> "recorded", id |-> id]

\* ---------------------------------------------------------------- locals
IdleCall ==
    [pc |-> "idle", id |-> 0, timeout |-> 0, data |-> NoFile, start |-> 0,
     wake |-> 0, response |-> NoFile, ts |-> 0, result |-> NoResult,
     at |-> InPlace,
     \* history of the activation, read by the properties only: how long the
     \* wait loop ran, and whether a response was written before the deadline
     waited |-> 0, inTime |-> FALSE]

IdleRespond ==
    [pc |-> "idle", id |-> 0, answer |-> "", data |-> NoFile,
     at |-> InPlace, result |-> NoResult]

Init ==
    /\ now = 0
    /\ requests = [i \in Ids |-> NoFile]
    /\ responses = [i \in Ids |-> NoFile]
    /\ histDirs = {}
    /\ histFiles = {}
    /\ oc = [c \in Callers |-> IdleCall]
    /\ rs = [r \in Responders |-> IdleRespond]
    /\ lastRead = NoResult
    /\ snap = <<>>

\* --------------------------------------------------------------- the store
\* a rename to a name without the id (request.json, response.json): the file
\* replaces the record any exchange has left in the directory
RenamedOverAny(files, ts, kind, id, rec) ==
    {f \in files : ~(f.ts = ts /\ f.kind = kind)}
        \cup {[ts |-> ts, kind |-> kind, id |-> id, rec |-> rec]}

\* Path.rename(archive_dir / name): the file leaves the open directory and
\* replaces whatever file of that name the archive directory holds
Renamed(files, ts, kind, id, rec) ==
    {f \in files : ~(f.ts = ts /\ f.kind = kind /\ f.id = id)}
        \cup {[ts |-> ts, kind |-> kind, id |-> id, rec |-> rec]}

\* the file an open file object is bound to, after a rename into ts/
Carried(at, ts) ==
    IF at = InPlace THEN ts ELSE IF at = ts THEN Unlinked ELSE at

\* ------------------------------------------------------- _archive_exchange
\* lines 141-144 after a response was read, lines 152-153 after the timeout:
\* what oracle_call returns once _archive_exchange has ended
Return(call) ==
    [call EXCEPT !.pc = "returned", !.data = NoFile, !.response = NoFile,
        !.ts = 0, !.result =
            IF call.response # NoFile
            THEN SuccessResult(Get(call.response, "responder", "oracle"),
                               Get(call.response, "answer", "(no answer provided)"))
            ELSE TimeoutResult(call.timeout, call.id)]

\* an exception leaves oracle_call
Failed(call, error) ==
    [call EXCEPT !.pc = "raised", !.data = NoFile, !.response = NoFile,
        !.ts = 0, !.start = 0, !.wake = 0, !.result = Raised(error)]

\* lines 79-81: the directory is named after the second the call is made in
ArchiveMkdir(c) ==
    /\ oc[c].pc = "archive"
    /\ histDirs' = histDirs \cup {now}
    /\ oc' = [oc EXCEPT ![c].pc = "archive_request", ![c].ts = now]
    /\ lastRead' = NoResult
    /\ UNCHANGED <<now, requests, responses, histFiles, rs, snap>>

\* line 86, req_path.exists()
ArchiveRequestExists(c) ==
    /\ oc[c].pc = "archive_request"
    /\ oc' = [oc EXCEPT ![c].pc =
                IF requests[oc[c].id] # NoFile THEN "rename_request"
                ELSE "archive_response"]
    /\ lastRead' = NoResult
    /\ UNCHANGED <<now, store, rs, snap>>

\* line 87, req_path.rename(...), which raises when the file is gone
ArchiveRequestRename(c) ==
    /\ oc[c].pc = "rename_request"
    /\ LET id == oc[c].id IN
        IF requests[id] = NoFile
        THEN /\ oc' = [oc EXCEPT ![c] = Failed(oc[c], "FileNotFoundError")]
             /\ UNCHANGED <<requests, histFiles>>
        ELSE /\ histFiles' = Renamed(histFiles, oc[c].ts, "request", id, requests[id])
             /\ requests' = [requests EXCEPT ![id] = NoFile]
             /\ oc' = [d \in Callers |->
                        IF d = c THEN [oc[c] EXCEPT !.pc = "archive_response"]
                        ELSE IF oc[d].pc = "request_dump" /\ oc[d].id = id
                        THEN [oc[d] EXCEPT !.at = Carried(@, oc[c].ts)]
                        ELSE oc[d]]
    /\ lastRead' = NoResult
    /\ UNCHANGED <<now, responses, histDirs, rs, snap>>

\* line 88, resp_path.exists(); when there is no response line 91 ends the
\* function and oracle_call returns
ArchiveResponseExists(c) ==
    /\ oc[c].pc = "archive_response"
    /\ oc' = [oc EXCEPT ![c] =
                IF responses[oc[c].id] # NoFile
                THEN [@ EXCEPT !.pc = "rename_response"]
                ELSE Return(oc[c])]
    /\ lastRead' = NoResult
    /\ UNCHANGED <<now, store, rs, snap>>

\* line 89, resp_path.rename(...), which raises when the file is gone; line
\* 91 ends the function and oracle_call returns
ArchiveResponseRename(c) ==
    /\ oc[c].pc = "rename_response"
    /\ LET id == oc[c].id IN
        IF responses[id] = NoFile
        THEN /\ oc' = [oc EXCEPT ![c] = Failed(oc[c], "FileNotFoundError")]
             /\ UNCHANGED <<responses, histFiles, rs>>
        ELSE /\ histFiles' = Renamed(histFiles, oc[c].ts, "response", id, responses[id])
             /\ responses' = [responses EXCEPT ![id] = NoFile]
             /\ oc' = [oc EXCEPT ![c] = Return(oc[c])]
             /\ rs' = [r \in Responders |->
                        IF rs[r].pc = "dump" /\ rs[r].id = id
                        THEN [rs[r] EXCEPT !.at = Carried(@, oc[c].ts)]
                        ELSE rs[r]]
    /\ lastRead' = NoResult
    /\ UNCHANGED <<now, requests, histDirs, snap>>

\* ------------------------------------------------------------- oracle_call
\* lines 115-130 and line 62: the id is drawn, the request built, and
\* open(path, "w") creates the request file (or truncates the one that has
\* this id already)
OracleCall(c) ==
    /\ oc[c].pc = "idle"
    /\ \A d \in Callers : d < c => oc[d].pc # "idle"
    /\ \E id \in Ids, t \in Timeouts :
        \* the clock is bounded: a call starts only if its deadline and the
        \* sleep that spans it end by MaxTime
        /\ now + t + poll_interval - 1 <= MaxTime
        /\ oc' = [oc EXCEPT ![c] =
                    [IdleCall EXCEPT !.pc = "request_dump", !.id = id,
                        !.timeout = t,
                        !.data = request_data(id, Arguments[c].question,
                                    Arguments[c].context, Arguments[c].urgency)]]
        /\ requests' = [requests EXCEPT ![id] = EmptyFile]
    /\ lastRead' = NoResult
    /\ UNCHANGED <<now, responses, histDirs, histFiles, rs, snap>>

\* line 63, json.dump and the close of the file, for both calls of
\* _write_request: line 130, followed by start_time = time.time() (line 134),
\* and line 150, followed by _archive_exchange.  The record goes into the file
\* that line 62 opened, wherever a rename has taken it since
WriteRequest(c) ==
    /\ oc[c].pc = "request_dump"
    /\ requests' = IF oc[c].at = InPlace
                   THEN [requests EXCEPT ![oc[c].id] = oc[c].data]
                   ELSE requests
    /\ histFiles' = IF oc[c].at \in {InPlace, Unlinked} THEN histFiles
                    ELSE Renamed(histFiles, oc[c].at, "request", oc[c].id, oc[c].data)
    /\ oc' = [oc EXCEPT ![c] =
                IF oc[c].data.status = "pending"
                THEN [@ EXCEPT !.pc = "enter", !.start = now, !.at = InPlace]
                ELSE [@ EXCEPT !.pc = "archive", !.at = InPlace]]
    /\ lastRead' = NoResult
    /\ UNCHANGED <<now, responses, histDirs, rs, snap>>

\* line 137, the loop condition, on entry ("enter") and each time
\* asyncio.sleep (line 146) has resumed the task ("loop"), which is once
\* poll_interval has passed, at that moment or later.  When it fails: lines
\* 149 and 62, the status is set and open(path, "w") truncates the request
\* file, creating it if it is gone
LoopTest(c) ==
    /\ \/ oc[c].pc = "enter"
       \/ oc[c].pc = "loop" /\ now >= oc[c].wake
    /\ IF now - oc[c].start < oc[c].timeout
       THEN /\ oc' = [oc EXCEPT ![c].pc = "poll"]
            /\ UNCHANGED requests
       ELSE /\ oc' = [oc EXCEPT ![c].pc = "request_dump",
                                ![c].waited = now - oc[c].start,
                                ![c].start = 0, ![c].wake = 0,
                                ![c].data.status = "timeout"]
            /\ requests' = [requests EXCEPT ![oc[c].id] = EmptyFile]
    /\ lastRead' = NoResult
    /\ UNCHANGED <<now, responses, histDirs, histFiles, rs, snap>>

\* line 71, path.exists() in _read_response; on None, line 146 starts the
\* sleep
ReadResponseExists(c) ==
    /\ oc[c].pc = "poll"
    /\ oc' = [oc EXCEPT ![c] =
                IF responses[oc[c].id] = NoFile
                THEN [@ EXCEPT !.pc = "loop", !.wake = now + poll_interval]
                ELSE [@ EXCEPT !.pc = "load"]]
    /\ lastRead' = NoResult
    /\ UNCHANGED <<now, store, rs, snap>>

\* lines 72-73, open(path) and json.load, whose exception leaves oracle_call
ReadResponseLoad(c) ==
    /\ oc[c].pc = "load"
    /\ LET f == responses[oc[c].id] IN
        oc' = [oc EXCEPT ![c] =
                IF f = NoFile
                THEN [Failed(@, "FileNotFoundError") EXCEPT
                        !.waited = now - oc[c].start]
                ELSE IF f = EmptyFile
                THEN [Failed(@, "JSONDecodeError") EXCEPT
                        !.waited = now - oc[c].start]
                ELSE [@ EXCEPT !.pc = "archive", !.data = NoFile,
                               !.waited = now - oc[c].start,
                               !.start = 0, !.wake = 0, !.response = f]]
    /\ lastRead' = NoResult
    /\ UNCHANGED <<now, store, rs, snap>>

\* ------------------------------------------------- respond_to_oracle_call
\* the activations of oracle_call that wait on id with their deadline ahead
InTime(id) ==
    {c \in Callers : /\ oc[c].id = id
                     /\ oc[c].pc \in {"enter", "loop", "poll", "load"}
                     /\ now - oc[c].start < oc[c].timeout}

\* respond_to_oracle_call without the test of lines 202-203
RespondUnchecked(r) ==
    /\ rs[r].pc = "idle"
    /\ \E id \in Ids, a \in Answers :
        rs' = [rs EXCEPT ![r] =
                [pc |-> "open", id |-> id, answer |-> a,
                 data |-> response_data(id, requests[id], a),
                 at |-> InPlace, result |-> NoResult]]
    /\ lastRead' = NoResult
    /\ UNCHANGED <<now, store, oc, snap>>

\* lines 201-203, req_path.exists()
Respond(r) ==
    /\ rs[r].pc = "idle"
    /\ \E id \in Ids, a \in Answers :
        rs' = [rs EXCEPT ![r] =
                IF requests[id] = NoFile
                THEN [pc |-> "returned", id |-> id, answer |-> "", data |-> NoFile,
                      at |-> InPlace, result |-> NotFoundResult(id)]
                ELSE [pc |-> "load", id |-> id, answer |-> a, data |-> NoFile,
                      at |-> InPlace, result |-> NoResult]]
    /\ lastRead' = NoResult
    /\ UNCHANGED <<now, store, oc, snap>>

\* lines 205-215, open(req_path), json.load and the response built from it
RespondLoad(r) ==
    /\ rs[r].pc = "load"
    /\ LET f == requests[rs[r].id] IN
        rs' = [rs EXCEPT ![r] =
                IF f = NoFile
                THEN [@ EXCEPT !.pc = "raised", !.answer = "",
                               !.result = Raised("FileNotFoundError")]
                ELSE IF f = EmptyFile
                THEN [@ EXCEPT !.pc = "raised", !.answer = "",
                               !.result = Raised("JSONDecodeError")]
                ELSE [@ EXCEPT !.pc = "open",
                               !.data = response_data(rs[r].id, f, rs[r].answer)]]
    /\ lastRead' = NoResult
    /\ UNCHANGED <<now, store, oc, snap>>

\* line 218, open(resp_path, "w")
RespondOpen(r) ==
    /\ rs[r].pc = "open"
    /\ responses' = [responses EXCEPT ![rs[r].id] = EmptyFile]
    /\ rs' = [rs EXCEPT ![r].pc = "dump"]
    /\ lastRead' = NoResult
    /\ UNCHANGED <<now, requests, histDirs, histFiles, oc, snap>>

\* respond_to_oracle_call writing the record into the response file of any
\* id, not of request_id
RespondDumpMisfiled(r) ==
    /\ rs[r].pc = "dump"
    /\ \E i \in Ids : responses' = [responses EXCEPT ![i] = rs[r].data]
    /\ rs' = [rs EXCEPT ![r].pc = "returned", ![r].data = NoFile,
                        ![r].at = InPlace,
                        ![r].result = RecordedResult(rs[r].id)]
    /\ oc' = [c \in Callers |->
                IF c \in InTime(rs[r].id) THEN [oc[c] EXCEPT !.inTime = TRUE]
                ELSE oc[c]]
    /\ lastRead' = NoResult
    /\ UNCHANGED <<now, requests, histDirs, histFiles, snap>>

\* lines 219-222, json.dump, the close of the file and the return.  The
\* record goes into the file that line 218 opened, wherever a rename has taken
\* it since
RespondDump(r) ==
    /\ rs[r].pc = "dump"
    /\ responses' = IF rs[r].at = InPlace
                    THEN [responses EXCEPT ![rs[r].id] = rs[r].data]
                    ELSE responses
    /\ histFiles' = IF rs[r].at \in {InPlace, Unlinked} THEN histFiles
                    ELSE Renamed(histFiles, rs[r].at, "response", rs[r].id, rs[r].data)
    /\ rs' = [rs EXCEPT ![r].pc = "returned", ![r].data = NoFile,
                        ![r].at = InPlace,
                        ![r].result = RecordedResult(rs[r].id)]
    /\ oc' = [c \in Callers |->
                IF c \in InTime(rs[r].id) THEN [oc[c] EXCEPT !.inTime = TRUE]
                ELSE oc[c]]
    /\ lastRead' = NoResult
    /\ UNCHANGED <<now, requests, histDirs, snap>>

\* ---------------------------------------------------------------- the clock
\* The steps of the tools take no time on a clock that counts seconds: the
\* second changes while every activation of oracle_call is suspended in
\* asyncio.sleep, has not begun or has ended, and no respond_to_oracle_call
\* is under way.  A task may stay suspended past the end of its sleep.
Quiet ==
    /\ \A c \in Callers : oc[c].pc \in {"idle", "loop", "returned", "raised"}
    /\ \A r \in Responders : rs[r].pc \in {"idle", "returned", "raised"}

Tick ==
    /\ now < MaxTime
    /\ Quiet
    /\ now' = now + 1
    /\ lastRead' = NoResult
    /\ UNCHANGED <<store, oc, rs, snap>>

\* ---------------------------------------------------------- the listings
\* Each tool is taken as one step: it reads the directory and the files it
\* lists at one moment.  The questions of the model are shorter than the 60
\* and 80 characters the listings cut them to.

\* sorted(paths): the file names are the ids
RECURSIVE Sorted(_)
Sorted(S) ==
    IF S = {} THEN <<>>
    ELSE LET m == CHOOSE x \in S : \A y \in S : x <= y
         IN <<m>> \o Sorted(S \ {m})

\* sorted(paths, reverse=True)[:limit]
RECURSIVE Latest(_, _)
Latest(S, limit) ==
    IF S = {} \/ limit <= 0 THEN <<>>
    ELSE LET m == CHOOSE x \in S : \A y \in S : x >= y
         IN <<m>> \o Latest(S \ {m}, limit - 1)

\* str.upper()
Upper(u) ==
    CASE u = "low" -> "LOW" [] u = "normal" -> "NORMAL" [] u = "high" -> "HIGH"
      [] u = "critical" -> "CRITICAL" [] u = "asap" -> "ASAP" [] OTHER -> u

\* REQUESTS_DIR.glob("*.json"), RESPONSES_DIR.glob("*.json")
Globbed(dir) == {i \in Ids : dir[i] # NoFile}

\* lines 163-187
bus_status ==
    LET pending_requests == Globbed(requests)
        order == Sorted(pending_requests)
    IN  IF \E i \in pending_requests : ~IsJson(requests[i])
        THEN Raised("JSONDecodeError")
        ELSE [kind |-> "status",
              pending_requests |-> Cardinality(pending_requests),
              pending_responses |-> Cardinality(Globbed(responses)),
              historical |-> Cardinality(histDirs),
              lines |-> [k \in 1..Len(order) |->
                  LET req == requests[order[k]]
                  IN [id |-> Get(req, "id", "?"),
                      urgency |-> Upper(Get(req, "urgency", "normal")),
                      question |-> Get(req, "question", "?")]]]

\* lines 231-249
list_pending_calls ==
    LET pending == Globbed(requests)
        order == Sorted(pending)
    IN  IF pending = {} THEN [kind |-> "no_pending"]
        ELSE IF \E i \in pending : ~IsJson(requests[i])
        THEN Raised("JSONDecodeError")
        ELSE [kind |-> "pending",
              lines |-> [k \in 1..Len(order) |->
                  LET req == requests[order[k]]
                  IN [id |-> Get(req, "id", "?"),
                      question |-> Get(req, "question", "?"),
                      context |-> Get(req, "context", "(none)"),
                      urgency |-> Get(req, "urgency", "normal"),
                      status |-> Get(req, "status", "pending")]]]

\* lines 259-286; the files of one directory come in the order glob gives
\* them, which the listing of a directory leaves open: a set here
bus_history(limit) ==
    LET history_dirs == Latest(histDirs, limit)
        shown == {history_dirs[k] : k \in 1..Len(history_dirs)}
    IN  IF history_dirs = <<>> THEN [kind |-> "no_history"]
        ELSE IF \E f \in histFiles : f.ts \in shown /\ ~IsJson(f.rec)
        THEN Raised("JSONDecodeError")
        ELSE [kind |-> "history",
              lines |-> [k \in 1..Len(history_dirs) |->
                  [archived |-> history_dirs[k],
                   requests |->
                      {[id |-> Get(f.rec, "id", "?"),
                        question |-> Get(f.rec, "question", "?"),
                        urgency |-> Get(f.rec, "urgency", "normal"),
                        status |-> Get(f.rec, "status", "?")] :
                       f \in {g \in histFiles :
                                g.ts = history_dirs[k] /\ g.kind = "request"}},
                   responses |->
                      {[answer |-> Get(f.rec, "answer", "(no answer)"),
                        responder |-> Get(f.rec, "responder", "?")] :
                       f \in {g \in histFiles :
                                g.ts = history_dirs[k] /\ g.kind = "response"}}]]]

BusStatus ==
    /\ lastRead' = bus_status
    /\ UNCHANGED <<now, store, oc, rs, snap>>

\* list_pending_calls taking the requests it lists off the bus
ListPendingCallsConsuming ==
    /\ lastRead' = list_pending_calls
    /\ requests' = [i \in Ids |-> NoFile]
    /\ UNCHANGED <<now, responses, histDirs, histFiles, oc, rs, snap>>

ListPendingCalls ==
    /\ lastRead' = list_pending_calls
    /\ UNCHANGED <<now, store, oc, rs, snap>>

BusHistory ==
    /\ \E limit \in Limits : lastRead' = bus_history(limit)
    /\ UNCHANGED <<now, store, oc, rs, snap>>

\* ------------------------------------------------------- specifications
\* Spec: the activations of oracle_call, the responder and the clock
Next ==
    \/ \E c \in Callers :
        \/ OracleCall(c) \/ WriteRequest(c) \/ LoopTest(c)
        \/ ReadResponseExists(c) \/ ReadResponseLoad(c)
        \/ ArchiveMkdir(c) \/ ArchiveRequestExists(c) \/ ArchiveRequestRename(c)
        \/ ArchiveResponseExists(c) \/ ArchiveResponseRename(c)
    \/ \E r \in Responders :
        \/ Respond(r) \/ RespondLoad(r) \/ RespondOpen(r) \/ RespondDump(r)
    \/ Tick

Spec == Init /\ [][Next]_vars

\* InspectSpec: an observer runs the listing tools at any moment of one
\* exchange
NextInspect ==
    \/ \E c \in {1} :
        \/ OracleCall(c) \/ WriteRequest(c) \/ LoopTest(c)
        \/ ReadResponseExists(c) \/ ReadResponseLoad(c)
        \/ ArchiveMkdir(c) \/ ArchiveRequestExists(c) \/ ArchiveRequestRename(c)
        \/ ArchiveResponseExists(c) \/ ArchiveResponseRename(c)
    \/ \E r \in Responders :
        \/ Respond(r) \/ RespondLoad(r) \/ RespondOpen(r) \/ RespondDump(r)
    \/ BusStatus \/ ListPendingCalls \/ BusHistory
    \/ Tick

InspectSpec == Init /\ [][NextInspect]_vars

\* ------------------------------------------- _archive_exchange on its own
\* The stores _archive_exchange can be handed: any open request and response
\* of an id, next to what an earlier exchange left in history
OpenRequests(i) ==
    {NoFile, EmptyFile}
        \cup {[request_data(i, Arguments[c].question, Arguments[c].context,
                            Arguments[c].urgency) EXCEPT !.status = st] :
                c \in Callers, st \in {"pending", "timeout"}}

OpenResponses(i) ==
    {NoFile, EmptyFile}
        \cup {response_data(i, request_data(i, Arguments[c].question, "", ""), a) :
                c \in Callers, a \in Answers}

InitArchive ==
    /\ now \in {0, 1}
    /\ requests \in {f \in [Ids -> UNION {OpenRequests(i) : i \in Ids}] :
                        \A i \in Ids : f[i] \in OpenRequests(i)}
    /\ responses \in {f \in [Ids -> UNION {OpenResponses(i) : i \in Ids}] :
                        \A i \in Ids : f[i] \in OpenResponses(i)}
    /\ histDirs \in {{}, {0}}
    /\ histFiles = {}
    /\ \E id \in Ids :
        oc = [c \in Callers |->
                IF c = 1
                THEN [IdleCall EXCEPT !.pc = "archive", !.id = id, !.timeout = 1,
                                      !.waited = 1]
                ELSE IdleCall]
    /\ rs = [r \in Responders |-> IdleRespond]
    /\ lastRead = NoResult
    /\ snap = <<>>

\* _archive_exchange is invoked once more for the id it has just archived
ArchiveAgain(c) ==
    /\ oc[c].pc = "returned"
    /\ snap = <<>>
    /\ snap' = store
    /\ oc' = [oc EXCEPT ![c].pc = "archive"]
    /\ lastRead' = NoResult
    /\ UNCHANGED <<now, store, rs>>

NextArchive ==
    \/ \E c \in Callers :
        \/ ArchiveMkdir(c) \/ ArchiveRequestExists(c) \/ ArchiveRequestRename(c)
        \/ ArchiveResponseExists(c) \/ ArchiveResponseRename(c)
        \/ ArchiveAgain(c)
    \/ Tick

ArchiveSpec == InitArchive /\ [][NextArchive]_vars

\* =================================================================== claims
Started(c) == oc[c].pc # "idle"
Finished(c) == oc[c].pc \in {"returned", "raised"}

\* no two activations of oracle_call drew the same id
DistinctIds ==
    \A c, d \in Callers : (c # d /\ Started(c) /\ Started(d)) => oc[c].id # oc[d].id

Archived(kind, id) == {f \in histFiles : f.kind = kind /\ f.id = id}
InOpen(id) == requests[id] # NoFile \/ responses[id] # NoFile
InHistory(id) == \E f \in histFiles : f.id = id

\* C1: a response written for the call's id before timeout_seconds has elapsed
\* makes oracle_call return the success result with that answer and responder,
\* and the exchange is then in history exactly once.  Stated for the runs in
\* which every call has an id of its own.
C1_AnsweredInTimeReturnsAnswer ==
    \A c \in Callers :
        (DistinctIds /\ Finished(c) /\ oc[c].inTime) =>
            /\ oc[c].result.kind = "success"
            /\ oc[c].result.responder = "oracle"
            /\ oc[c].result.answer \in Answers
            /\ Cardinality(Archived("request", oc[c].id)) = 1
            /\ Cardinality(Archived("response", oc[c].id)) = 1

\* C2: when no response was written for the call's id before timeout_seconds
\* had elapsed, oracle_call returns the timeout result with the id, and the
\* request is then in history exactly once, with status timeout, and no longer
\* open.
C2_UnansweredReturnsTimeout ==
    \A c \in Callers :
        (oc[c].pc = "returned" /\ ~oc[c].inTime) =>
            /\ oc[c].result = TimeoutResult(oc[c].timeout, oc[c].id)
            /\ Cardinality(Archived("request", oc[c].id)) = 1
            /\ \A f \in Archived("request", oc[c].id) :
                    IsJson(f.rec) /\ f.rec.status = "timeout"
            /\ requests[oc[c].id] = NoFile

\* C3: no id has a record in an open partition and a record in history at the
\* same time.  Stated for the runs in which every call has an id of its own.
C3_OpenOrArchivedNeverBoth ==
    DistinctIds => \A id \in Ids : ~(InOpen(id) /\ InHistory(id))

\* C4: a second _archive_exchange(id) leaves the store (open requests, open
\* responses, the history directories and their files) as the first left it.
C4_ArchiveIdempotent ==
    \A c \in Callers : (oc[c].pc = "returned" /\ snap # <<>>) => store = snap

\* C5: respond_to_oracle_call invoked for an id that has no open request
\* returns the 'No pending request found' result and leaves the open
\* requests, the open responses and history as they were.
C5_NotFoundLeavesStoreUnchanged ==
    [][\A r \in Responders :
        (rs[r].pc = "idle" /\ rs'[r].pc # "idle" /\ requests[rs'[r].id] = NoFile) =>
            /\ rs'[r].pc = "returned"
            /\ rs'[r].result = NotFoundResult(rs'[r].id)
            /\ store' = store]_vars

\* respond_to_oracle_call has answered 'No pending request found' for an
\* exchange that is in history
C5_Witness ==
    \E r \in Responders :
        /\ rs[r].result = NotFoundResult(rs[r].id)
        /\ InHistory(rs[r].id)
        /\ responses[rs[r].id] = NoFile

\* C6: list_pending_calls, bus_history and bus_status leave the open
\* requests, the open responses and history as they were.
C6_ListingsLeaveStoreUnchanged ==
    [][lastRead' # NoResult => store' = store]_vars

\* a listing has returned the one open request
C6_Witness ==
    /\ lastRead.kind \in {"pending", "status"}
    /\ Len(lastRead.lines) = 1
    /\ \E i \in Ids : IsJson(requests[i])

\* C7: the time between the start of the wait loop and the moment oracle_call
\* leaves it never exceeds timeout_seconds.
C7_WaitNeverExceedsTimeout ==
    \A c \in Callers : Started(c) => oc[c].waited <= oc[c].timeout

\* C8: an oracle_call that ends has returned one of its two results, the
\* success result or the timeout result.  Stated for the runs in which every
\* call has an id of its own.
C8_EndsWithOneOfTwoResults ==
    \A c \in Callers :
        (DistinctIds /\ Finished(c)) => oc[c].result.kind \in {"success", "timeout"}

\* the request of id carries status timeout, open or archived
TimedOut(id) ==
    \/ IsJson(requests[id]) /\ requests[id].status = "timeout"
    \/ \E f \in Archived("request", id) : IsJson(f.rec) /\ f.rec.status = "timeout"

\* a response record exists for id, open or archived
Answered(id) ==
    \/ IsJson(responses[id])
    \/ \E f \in Archived("response", id) : IsJson(f.rec)

\* C9: no exchange is both timed out and answered.  Stated for the runs in
\* which every call has an id of its own.
C9_NeverTimedOutAndAnswered ==
    DistinctIds => \A id \in Ids : ~(TimedOut(id) /\ Answered(id))

\* C10: once _archive_exchange has completed for an exchange, no request or
\* response record of its id is in an open partition.  Stated for the runs in
\* which every call has an id of its own.
C10_ArchivedNeverOpenAgain ==
    \A c \in Callers :
        (DistinctIds /\ oc[c].pc = "returned") => ~InOpen(oc[c].id)

\* C11: no oracle_call is given the id of another exchange: any two
\* activations of oracle_call that have begun hold different ids.
C11_IdNeverReused ==
    \A c, d \in Callers :
        (c < d /\ Started(c) /\ Started(d)) => oc[c].id # oc[d].id

\* C12: two exchanges are never archived into the same history directory.
\* Stated for the runs in which every call has an id of its own.
C12_OneExchangePerContainer ==
    DistinctIds => \A f, g \in histFiles : f.id # g.id => f.ts # g.ts

\* C13: no reader meets a record that is only partly written: neither a
\* listing tool nor the _read_response of oracle_call fails to parse a file.
C13_NoPartialRecordObserved ==
    /\ lastRead # Raised("JSONDecodeError")
    /\ \A c \in Callers : oc[c].result # Raised("JSONDecodeError")

\* C14: a listing tool that meets a record that does not parse still returns
\* its result string: list_pending_calls, bus_status and bus_history never
\* end by an exception.
C14_ListingSkipsMalformedRecord ==
    lastRead.kind \in {"none", "status", "pending", "no_pending", "history",
                       "no_history"}

Urgencies == {"low", "normal", "high", "critical"}

\* C15: every request record on the bus, open or archived, has an urgency
\* that is one of low, normal, high and critical.  Stated for the runs in
\* which every call has an id of its own.
C15_UrgencyIsValid ==
    DistinctIds =>
        /\ \A i \in Ids : IsJson(requests[i]) => requests[i].urgency \in Urgencies
        /\ \A f \in histFiles :
            (f.kind = "request" /\ IsJson(f.rec)) => f.rec.urgency \in Urgencies

\* the records of one id: its open request, its open response and its files
\* in history
RecordsOf(i) == <<requests[i], responses[i], {f \in histFiles : f.id = i}>>

\* C16: a step changes the open request, the open response or the archived
\* records of an id only when the activation that takes the step, of
\* oracle_call (with its _archive_exchange) or of respond_to_oracle_call,
\* works on that id.
C16_OtherIdsUntouched ==
    [][\A i \in Ids :
        RecordsOf(i)' # RecordsOf(i) =>
            \/ \E c \in Callers : oc'[c] # oc[c] /\ oc'[c].id = i
            \/ \E r \in Responders : rs'[r] # rs[r] /\ rs'[r].id = i]_vars

\* two exchanges with different ids, one of them answered, were archived in
\* the same second into the same directory, and both are in history whole
C16_Witness ==
    /\ oc[1].pc = "returned" /\ oc[2].pc = "returned"
    /\ oc[1].id # oc[2].id
    /\ \E f, g \in histFiles :
        /\ f.kind = "request" /\ g.kind = "request" /\ f.ts = g.ts
        /\ f.id = oc[1].id /\ g.id = oc[2].id
        /\ IsJson(f.rec) /\ IsJson(g.rec)
    /\ \E f \in histFiles : f.kind = "response" /\ IsJson(f.rec)

\* the step is one of respond_to_oracle_call
RespondStep == \E r \in Responders : rs'[r].pc # rs[r].pc

\* the open record of id i in dir is gone after the step
Leaves(dir, i) == dir[i] # NoFile /\ dir'[i] = NoFile

\* the step is a rename of _archive_exchange(i), called by an oracle_call
\* that has read a response or has left the wait loop at its deadline
ArchiveStep(i) ==
    \E c \in Callers :
        /\ oc[c].pc \in {"rename_request", "rename_response"}
        /\ oc'[c].pc # oc[c].pc
        /\ oc[c].id = i
        /\ oc[c].response # NoFile \/ oc[c].waited >= oc[c].timeout

\* C17: respond_to_oracle_call changes no request record, removes no response
\* record and changes nothing in history, and a record leaves requests/ or
\* responses/ only by a rename of the _archive_exchange that oracle_call runs
\* for its id after a response or the deadline.  Stated for the runs in which
\* every call has an id of its own.
C17_OnlyArchiveDeletes ==
    [][DistinctIds' =>
        /\ RespondStep =>
            /\ requests' = requests
            /\ \A i \in Ids : ~Leaves(responses, i)
            /\ histDirs' = histDirs /\ histFiles' = histFiles
        /\ \A i \in Ids :
            (Leaves(requests, i) \/ Leaves(responses, i)) => ArchiveStep(i)]_vars

TmpB == [][DistinctIds' => \A i \in Ids : (Leaves(requests, i) \/ Leaves(responses, i)) => ArchiveStep(i)]_vars

\* C18: when respond_to_oracle_call has returned 'Response recorded ... The
\* caller will receive it shortly' for an id, the oracle_call of that id
\* returns the success result with the answer, not the timeout result.  Stated
\* for the runs in which every call has an id of its own.
C18_RecordedResponseIsDelivered ==
    \A r \in Responders, c \in Callers :
        (/\ DistinctIds
         /\ rs[r].result = RecordedResult(oc[c].id)
         /\ oc[c].pc = "returned") =>
            /\ oc[c].result.kind = "success"
            /\ oc[c].result.answer = rs[r].answer

\* C19: every request record in history has status answered or timeout.
\* Stated for the runs in which every call has an id of its own.
C19_ArchivedStatusIsTerminal ==
    DistinctIds =>
        \A f \in histFiles :
            (f.kind = "request" /\ IsJson(f.rec)) =>
                f.rec.status \in {"answered", "timeout"}

\* C20: the answer in a success result of oracle_call is the answer that a
\* respond_to_oracle_call invoked with the call's own id was given.
C20_AnswerIsForOwnId ==
    \A c \in Callers :
        oc[c].result.kind = "success" =>
            \E r \in Responders :
                /\ rs[r].result = RecordedResult(oc[c].id)
                /\ rs[r].answer = oc[c].result.answer

\* two calls with different ids waited at the same time, the second was
\* answered and has returned the answer, the first is still in its wait loop
C20_Witness ==
    /\ oc[2].result.kind = "success"
    /\ oc[1].pc \in {"loop", "poll"}
    /\ oc[1].id # oc[2].id

====
